---- MODULE Spec2Model ----
(***************************************************************************)
(* A model of the in-page inspector of src/ts/index.ts: the log            *)
(* interceptor (wrapped console channels, error and rejection listeners)   *)
(* and the Inspector session (toggle, inspectElement, the contextmenu and  *)
(* keydown listeners, and the window[id].ch / window[id].sp actions).      *)
(*                                                                         *)
(* Every handler is a pure operator from the state before it to the state  *)
(* after it (a record S), so that a handler that calls another one         *)
(* (ch -> inspectElement, keydown -> toggle, sp -> console.log) is the     *)
(* composition the code performs.  The actions of Next apply one handler   *)
(* to the current state.                                                   *)
(***************************************************************************)
EXTENDS Integers, Sequences, FiniteSets, TLC

VARIABLES
    logs,       \* logs.general: sequence of [ts, data]
    forwarded,  \* calls that reached the original console channels (logs.f.*)
    now,        \* the latest reading of the host's monotonic clock
    marks,      \* the host's performance marks, oldest first: [name, startTime]
    measures,   \* the host's performance measures: [name, startTime, duration]
    evals,      \* number of scripts evaluated by new Function(...)()
    active,     \* Inspector.active
    tab,        \* Inspector.tab
    selected,   \* Inspector.selected (NoElement when undefined)
    off,        \* the panel's class list holds "off"
    dataMode,   \* html[data-mode="inspect"] is set on the document root
    winSide,    \* the panel carries the side-mode attribute
    rootSide,   \* the document root carries inspector-side-mode
    left,       \* the panel's style.left
    top,        \* the panel's style.top
    markup,     \* the panel's inner markup, as the host parsed it
    els         \* the page's elements: [id, className, attached, replacedBy]

vars == <<logs, forwarded, now, marks, measures, evals, active, tab, selected,
          off, dataMode, winSide, rootSide, left, top, markup, els>>

(***************************************************************************)
(* Bounds of the model.                                                    *)
(***************************************************************************)
MaxLogs == 1
MaxClock == 1
MaxMarks == 1
MaxLogCalls == 2

(***************************************************************************)
(* Values.  Text is a tuple of one-character strings, so that what the     *)
(* host's HTML parser does with a quote inside an attribute is computed.   *)
(***************************************************************************)
Undefined == [type |-> "undefined"]
Str(t) == [type |-> "string", text |-> t]
ErrorObject(n) == [type |-> "error", name |-> n]
EchoText(script) == [type |-> "echo", script |-> script]
StampText(s, d) == [type |-> "stampResult", start |-> s, duration |-> d]

NoElement == "none"
Quote == "\""

Channels == {"log", "error", "warn"}
Tabs == {"display", "console", "storage", "performance"}

\* What the page hands to the channels and what the host hands to the listeners.
UserPayloads == {Str(<<"p">>)}
\* The channel the inspected page writes to during a session with the panel.
PageChannels == {"log"}
ChannelInputs == UserPayloads \cup {Undefined}
EventPayloads == {ErrorObject("Error"), Undefined}
\* What the host reports to the listeners during a session with the panel.
PageErrors == {ErrorObject("Error")}

\* What a caller of ch can assign to id or className.
InputValues == {<<"b", "a", "r">>, <<"a", Quote, "b">>}
\* What a user types into the ID field.
IdValues == {<<"a", Quote, "b">>}
\* What a user types into the className field.
ClassNames == {<<"b", "a", "r">>}
\* What a user can type into the raw-markup field.
MarkupValues == {<<"<", "i", ">", "x", "<", "/", "i", ">">>}
\* What a user can type into the Run JavaScript field.
Scripts == {"ok", "throw"}
\* `${pageX}` / `${pageY}` of the events: a mouse event carries numbers, a
\* change event carries neither.
MousePositions == {[x |-> "1", y |-> "2"]}
NoPosition == [x |-> "undefined", y |-> "undefined"]

\* The page: its elements, and the panel's host element (id = this.id).
PageElements == {"e1"}
Host == "host"
Targets == PageElements \cup {Host}
NodeName(e) == IF e = "e1" THEN "DIV" ELSE "P"
\* The tag as element.outerHTML writes it.
TagName(e) == IF e = "e1" THEN "div" ELSE "p"
InitialElement(e) ==
    [id |-> IF e = "e1" THEN <<"f", "o", "o">> ELSE <<>>,
     className |-> <<>>,
     attached |-> TRUE,
     replacedBy |-> <<>>]

\* The storage areas and the cookie string of the host.
LocalStorage == <<"{", Quote, "k", Quote, ":", Quote, "v", Quote, "}">>
SessionStorage == <<"{", "}">>
Cookie == <<"c", "=", "1">>

(***************************************************************************)
(* Text conversions of the host.                                           *)
(***************************************************************************)
RECURSIVE Concat(_)
Concat(ss) == IF ss = <<>> THEN <<>> ELSE Head(ss) \o Concat(Tail(ss))

\* Serialising an attribute value: a quote becomes &quot;, & becomes &amp;.
AttrEscapeChar(c) ==
    IF c = Quote THEN <<"&", "quot;">>
    ELSE IF c = "&" THEN <<"&", "amp;">>
    ELSE <<c>>
AttrEscape(t) == Concat([i \in 1..Len(t) |-> AttrEscapeChar(t[i])])

\* element.outerHTML: the serialisation of the element.
OuterHTML(e, el) ==
    <<"<", TagName(e), " id=", Quote>> \o AttrEscape(el.id)
      \o <<Quote, " class=", Quote>> \o AttrEscape(el.className)
      \o <<Quote, ">", "</", TagName(e), ">">>

\* new Option(text).innerHTML: the text as the markup of a text node.
TextEscapeChar(c) ==
    IF c = "<" THEN <<"&", "lt;">>
    ELSE IF c = ">" THEN <<"&", "gt;">>
    ELSE IF c = "&" THEN <<"&", "amp;">>
    ELSE <<c>>
OptionInnerHTML(t) == Concat([i \in 1..Len(t) |-> TextEscapeChar(t[i])])

\* The parser's reading of character references in text.
EntityChar(n) ==
    IF n = "lt;" THEN "<" ELSE IF n = "gt;" THEN ">"
    ELSE IF n = "amp;" THEN "&" ELSE Quote
IsEntityName(n) == n \in {"lt;", "gt;", "amp;", "quot;"}
RECURSIVE DecodeEntities(_)
DecodeEntities(t) ==
    IF t = <<>> THEN <<>>
    ELSE IF Head(t) = "&" /\ Len(t) >= 2 /\ IsEntityName(t[2])
         THEN <<EntityChar(t[2])>> \o DecodeEntities(Tail(Tail(t)))
         ELSE <<Head(t)>> \o DecodeEntities(Tail(t))

\* The parser's reading of  value="${t}" : the value ends at the first quote.
RECURSIVE UpToQuote(_)
UpToQuote(t) ==
    IF t = <<>> \/ Head(t) = Quote THEN <<>>
    ELSE <<Head(t)>> \o UpToQuote(Tail(t))
AttrValueParsed(t) == DecodeEntities(UpToQuote(t))

\* The parser's reading of the content of a <textarea> written in the
\* template between a line break with indentation and another one.
TextareaParsed(t) == <<" ">> \o DecodeEntities(t) \o <<" ">>

\* `${data}`: the string a payload is rendered as.
ToText(d) ==
    IF d.type = "undefined" THEN Str(<<"undefined">>)
    ELSE IF d.type = "error" THEN Str(<<d.name>>)
    ELSE d

\* window.getComputedStyle(element) and the style text built from it.
ComputedStyle(e) ==
    <<[prop |-> "display", value |-> IF NodeName(e) = "DIV" THEN "block" ELSE "inline"],
      [prop |-> "color", value |-> "black"]>>
StyleText(e) ==
    LET computed == ComputedStyle(e)
    IN  Concat([i \in 1..Len(computed) |->
                  <<computed[i].prop, ": ", computed[i].value, ";\n">>])

HasMark(mk, name) == \E i \in 1..Len(mk) : mk[i].name = name

(***************************************************************************)
(* The log interceptor.                                                    *)
(***************************************************************************)
\* A push at the front of the list instead of its end.
PushFront(S, data) ==
    [S EXCEPT !.logs = <<[ts |-> S.now, data |-> data]>> \o @]

\* A push that keeps only the newest entry.
PushKeepsNewest(S, data) ==
    [S EXCEPT !.logs = <<[ts |-> S.now, data |-> data]>>]

\* logs.general.push({ ts: performance.now(), data })
Push(S, data) ==
    [S EXCEPT !.logs = Append(@, [ts |-> S.now, data |-> data])]

\* The wrappers without their check of the payload.
ConsoleCallUnchecked(S, ch, data) ==
    [S EXCEPT !.forwarded = Append(@, [ch |-> ch, data |-> data]),
              !.logs = Append(@, [ts |-> S.now, data |-> data])]

\* The wrappers all forwarding to the original console.log.
ConsoleCallToLog(S, ch, data) ==
    IF data = Undefined THEN S
    ELSE [S EXCEPT !.forwarded = Append(@, [ch |-> "log", data |-> data]),
                   !.logs = Append(@, [ts |-> S.now, data |-> data])]

\* console.log / console.error / console.warn as replaced by the module.
ConsoleCall(S, ch, data) ==
    IF data = Undefined THEN S
    ELSE Push([S EXCEPT !.forwarded = Append(@, [ch |-> ch, data |-> data])],
              data)

\* The "unhandledrejection" listener: data is event.reason.
RejectionListener(S, reason) == Push(S, reason)

\* The "error" listener with the wrappers' check of the payload.
ErrorListenerChecked(S, error) ==
    IF error = Undefined THEN S ELSE Push(S, error)

\* The "error" listener: data is event.error.
ErrorListener(S, error) == Push(S, error)

(***************************************************************************)
(* The Inspector.                                                          *)
(***************************************************************************)
EmptyMarkup == [kind |-> "empty"]

\* The tab area of the template.
TabMarkup(t, e, el, lg, mk) ==
    IF t = "display" THEN
        [kind |-> "display",
         nodeName |-> NodeName(e),
         id |-> AttrValueParsed(el.id),
         className |-> AttrValueParsed(el.className),
         outerHTML |-> TextareaParsed(OptionInnerHTML(OuterHTML(e, el))),
         computed |-> TextareaParsed(StyleText(e))]
    ELSE IF t = "console" THEN
        [kind |-> "console",
         lines |-> [i \in 1..Len(lg) |-> [ts |-> lg[i].ts, text |-> ToText(lg[i].data)]],
         runjs |-> <<>>]
    ELSE IF t = "storage" THEN
        [kind |-> "storage",
         localStorage |-> TextareaParsed(LocalStorage),
         sessionStorage |-> TextareaParsed(SessionStorage),
         cookie |-> TextareaParsed(Cookie)]
    ELSE IF t = "performance" THEN
        [kind |-> "performance",
         markActive |-> HasMark(mk, "ins-mark")]
    ELSE [kind |-> "text", text |-> <<"undefined">>]

\* The markup inspectElement assigns to the panel, as the host parses it.
Render(t, e, el, lg, side, mk) ==
    [kind |-> "panel",
     header |-> [nodeName |-> NodeName(e), id |-> el.id, className |-> el.className],
     activeTab |-> t,
     sideChecked |-> side,
     body |-> TabMarkup(t, e, el, lg, mk)]

\* style.left = `${x}px`: the host keeps the old value when the new one is
\* no length.
CssLength(old, v) == IF v = "undefined" THEN old ELSE <<v, "px">>

\* inspectElement without its check of this.active.
inspectElementUnguarded(S, e, position) ==
    [S EXCEPT !.left = CssLength(@, position.x),
              !.top = CssLength(@, position.y),
              !.markup = Render(S.tab, e, S.els[e], S.logs, S.winSide, S.marks),
              !.selected = e]

\* inspectElement recording the selection before its check of this.active.
inspectElementSelectsFirst(S, e, position) ==
    IF ~S.active THEN [S EXCEPT !.selected = e]
    ELSE inspectElementUnguarded(S, e, position)

\* inspectElement reading the side-mode attribute of the document root
\* instead of the panel's.
inspectElementReadsRoot(S, e, position) ==
    IF ~S.active THEN S
    ELSE [S EXCEPT !.left = CssLength(@, position.x),
                   !.top = CssLength(@, position.y),
                   !.markup = Render(S.tab, e, S.els[e], S.logs, S.rootSide, S.marks),
                   !.selected = e]

\* Inspector.inspectElement(element, position)
inspectElement(S, e, position) ==
    IF ~S.active THEN S
    ELSE [S EXCEPT !.left = CssLength(@, position.x),
                   !.top = CssLength(@, position.y),
                   !.markup = Render(S.tab, e, S.els[e], S.logs, S.winSide, S.marks),
                   !.selected = e]

\* toggle showing the panel (classList.remove) instead of toggling the class.
toggleShowsPanel(S) ==
    [S EXCEPT !.dataMode = IF S.dataMode THEN FALSE ELSE TRUE,
              !.active = ~S.active,
              !.off = FALSE,
              !.rootSide = ~S.rootSide,
              !.winSide = ~S.winSide]

\* toggle leaving the panel's class list alone.
toggleKeepsClass(S) ==
    [S EXCEPT !.dataMode = IF S.dataMode THEN FALSE ELSE TRUE,
              !.active = ~S.active,
              !.rootSide = ~S.rootSide,
              !.winSide = ~S.winSide]

\* toggle opening the display tab again.
toggleResetsTab(S) ==
    [S EXCEPT !.dataMode = IF S.dataMode THEN FALSE ELSE TRUE,
              !.active = ~S.active,
              !.off = ~S.off,
              !.rootSide = ~S.rootSide,
              !.winSide = ~S.winSide,
              !.tab = "display"]

\* toggle setting the inspect-mode marker without ever removing it.
toggleSetsMode(S) ==
    [S EXCEPT !.dataMode = TRUE,
              !.active = ~S.active,
              !.off = ~S.off,
              !.rootSide = ~S.rootSide,
              !.winSide = ~S.winSide]

\* Inspector.toggle()
toggle(S) ==
    [S EXCEPT !.dataMode = IF S.dataMode THEN FALSE ELSE TRUE,
              !.active = ~S.active,
              !.off = ~S.off,
              !.rootSide = ~S.rootSide,
              !.winSide = ~S.winSide]

\* The "keydown" listener without its check of this.active.
keydownUnguarded(S, key) ==
    IF key = "Escape" THEN toggle(S) ELSE S

\* The document's "keydown" listener.
keydown(S, key) ==
    IF ~S.active THEN S
    ELSE IF key = "Escape" THEN toggle(S)
    ELSE S

\* The class of the panel and of what is rendered in it.
CoreClass == <<"inspect.core">>

\* The "contextmenu" listener without its test for the inspect.core class.
contextmenuIgnoresCore(S, target, position) ==
    IF ~S.active \/ target = Host
    THEN S
    ELSE inspectElement(S, target, position)

\* The document's "contextmenu" listener.
contextmenu(S, target, position) ==
    IF \/ ~S.active
       \/ (target \in PageElements /\ S.els[target].className = CoreClass)
       \/ target = Host
    THEN S
    ELSE inspectElement(S, target, position)

\* (this.selected as any)[dataName] = value
SetProperty(S, e, dataName, value) ==
    IF dataName = "id" THEN [S EXCEPT !.els[e].id = value]
    ELSE IF dataName = "className" THEN [S EXCEPT !.els[e].className = value]
    ELSE IF dataName = "outerHTML" THEN
        \* the host replaces an element that has a parent by the parsed markup;
        \* the element itself is left as it was, out of the page
        IF S.els[e].attached
        THEN [S EXCEPT !.els[e].attached = FALSE, !.els[e].replacedBy = value]
        ELSE S
    ELSE S

\* window[id].ch(event, dataName)
ch(S, dataName, value, position) ==
    IF S.selected = NoElement THEN S
    ELSE inspectElement(SetProperty(S, S.selected, dataName, value),
                        S.selected, position)

\* startTime of the most recent mark called name
RECURSIVE LastMark(_, _)
LastMark(mk, name) ==
    IF mk[Len(mk)].name = name THEN mk[Len(mk)].startTime
    ELSE LastMark(SubSeq(mk, 1, Len(mk) - 1), name)

\* performance.measure(name, startMark, endMark)
Measure(S, name, startMark, endMark) ==
    LET start == LastMark(S.marks, startMark)
        end == LastMark(S.marks, endMark)
    IN  [S EXCEPT !.measures = Append(@, [name |-> name, startTime |-> start,
                                          duration |-> end - start])]

\* performance.getEntriesByName(name), for measures
MeasuresByName(S, name) == SelectSeq(S.measures, LAMBDA m : m.name = name)

\* An exception leaves the handler; the host reports it to the "error"
\* listener of the window.
Uncaught(S, error) == ErrorListener(S, error)

\* The stamp case without performance.clearMarks().
StampKeepsMarks(S) ==
    LET S1 == [S EXCEPT !.marks = Append(@, [name |-> "ins-end-mark",
                                             startTime |-> S.now])]
    IN  IF ~HasMark(S1.marks, "ins-mark")
        THEN [done |-> FALSE, state |-> Uncaught(S1, ErrorObject("SyntaxError"))]
        ELSE LET S2 == Measure(S1, "ins-s-to-e-measure", "ins-mark", "ins-end-mark")
                 results == MeasuresByName(S2, "ins-s-to-e-measure")
                 S3 == ConsoleCall(S2, "log",
                                   StampText(results[1].startTime, results[1].duration))
             IN  [done |-> TRUE,
                  state |-> [S3 EXCEPT !.measures = <<>>, !.tab = "console"]]

\* The stamp case measuring from the time origin when no start mark is
\* placed.
StampFromOrigin(S) ==
    LET S1 == [S EXCEPT !.marks = Append(@, [name |-> "ins-end-mark",
                                             startTime |-> S.now])]
    IN  IF ~HasMark(S1.marks, "ins-mark")
        THEN LET S3 == ConsoleCall(S1, "log", StampText(0, S.now))
             IN  [done |-> TRUE,
                  state |-> [S3 EXCEPT !.marks = <<>>, !.measures = <<>>,
                                       !.tab = "console"]]
        ELSE LET S2 == Measure(S1, "ins-s-to-e-measure", "ins-mark", "ins-end-mark")
                 results == MeasuresByName(S2, "ins-s-to-e-measure")
                 S3 == ConsoleCall(S2, "log",
                                   StampText(results[1].startTime, results[1].duration))
             IN  [done |-> TRUE,
                  state |-> [S3 EXCEPT !.marks = <<>>, !.measures = <<>>,
                                       !.tab = "console"]]

\* case "stamp" of sp
Stamp(S) ==
    LET S1 == [S EXCEPT !.marks = Append(@, [name |-> "ins-end-mark",
                                             startTime |-> S.now])]
    IN  IF ~HasMark(S1.marks, "ins-mark")
        THEN [done |-> FALSE, state |-> Uncaught(S1, ErrorObject("SyntaxError"))]
        ELSE LET S2 == Measure(S1, "ins-s-to-e-measure", "ins-mark", "ins-end-mark")
                 results == MeasuresByName(S2, "ins-s-to-e-measure")
                 S3 == ConsoleCall(S2, "log",
                                   StampText(results[1].startTime, results[1].duration))
             IN  [done |-> TRUE,
                  state |-> [S3 EXCEPT !.marks = <<>>, !.measures = <<>>,
                                       !.tab = "console"]]

\* The runjs case catching what the script throws and dropping it.
RunJsSwallows(S, value) ==
    LET S1 == ConsoleCall(S, "log", EchoText(value))
        S2 == [S1 EXCEPT !.evals = @ + 1]
    IN  IF value = "throw"
        THEN [done |-> FALSE, state |-> S2]
        ELSE [done |-> TRUE, state |-> S2]

\* case "runjs" of sp
RunJs(S, value) ==
    LET S1 == ConsoleCall(S, "log", EchoText(value))
        S2 == [S1 EXCEPT !.evals = @ + 1]
    IN  IF value = "throw"
        THEN [done |-> FALSE, state |-> Uncaught(S2, ErrorObject("Error"))]
        ELSE [done |-> TRUE, state |-> S2]

\* The tab cases with the display case setting the console tab.
SetTabMistyped(S, dataName) ==
    [S EXCEPT !.tab = IF dataName = "display" THEN "console" ELSE dataName]

\* The tab cases without the case "storage".
SetTabWithoutStorage(S, dataName) ==
    [S EXCEPT !.tab = IF dataName = "storage" THEN @ ELSE dataName]

\* The tab cases of sp: "display", "console", "storage", "performance".
SetTab(S, dataName) == [S EXCEPT !.tab = dataName]

\* The switch of sp with a default case that opens the display tab.
SpSwitchDefaultsToDisplay(S, dataName, value) ==
    IF dataName = "sideMode" THEN
        [done |-> TRUE, state |-> [S EXCEPT !.winSide = ~S.winSide,
                                            !.rootSide = ~S.rootSide]]
    ELSE IF dataName \in Tabs THEN [done |-> TRUE, state |-> SetTab(S, dataName)]
    ELSE IF dataName = "runjs" THEN RunJs(S, value)
    ELSE IF dataName = "mark" THEN
        [done |-> TRUE,
         state |-> [S EXCEPT !.marks = Append(@, [name |-> "ins-mark",
                                                  startTime |-> S.now])]]
    ELSE IF dataName = "stamp" THEN Stamp(S)
    ELSE [done |-> TRUE, state |-> SetTab(S, "display")]

\* The switch of sp: done tells whether the handler goes on to inspect again.
SpSwitch(S, dataName, value) ==
    IF dataName = "sideMode" THEN
        [done |-> TRUE, state |-> [S EXCEPT !.winSide = ~S.winSide,
                                            !.rootSide = ~S.rootSide]]
    ELSE IF dataName \in Tabs THEN [done |-> TRUE, state |-> SetTab(S, dataName)]
    ELSE IF dataName = "runjs" THEN RunJs(S, value)
    ELSE IF dataName = "mark" THEN
        [done |-> TRUE,
         state |-> [S EXCEPT !.marks = Append(@, [name |-> "ins-mark",
                                                  startTime |-> S.now])]]
    ELSE IF dataName = "stamp" THEN Stamp(S)
    ELSE [done |-> TRUE, state |-> S]

\* sp testing this.selected only after its switch.
spGuardsLate(S, dataName, value, position) ==
    LET r == SpSwitch(S, dataName, value)
    IN  IF S.selected = NoElement THEN r.state
        ELSE IF r.done THEN inspectElement(r.state, S.selected, position)
        ELSE r.state

\* window[id].sp(event, dataName)
sp(S, dataName, value, position) ==
    IF S.selected = NoElement THEN S
    ELSE LET r == SpSwitch(S, dataName, value)
         IN  IF r.done THEN inspectElement(r.state, S.selected, position)
             ELSE r.state

Keys == {"Escape", "a"}

(***************************************************************************)
(* The controls of the panel: what the rendered markup lets a user do.     *)
(***************************************************************************)
\* The buttons of the template (onclick) that the markup m holds.
Buttons(m) ==
    IF m.kind # "panel" THEN {}
    ELSE {"display", "console", "storage", "performance", "reload"}
         \cup (IF m.body.kind = "performance" THEN {"mark", "stamp"} ELSE {})

\* The fields of the template calling sp on a change event.
SpFields(m) ==
    IF m.kind # "panel" THEN {}
    ELSE {"sideMode"} \cup (IF m.body.kind = "console" THEN {"runjs"} ELSE {})

\* The enabled fields of the template calling ch on a change event.
ChFields(m) ==
    IF m.kind = "panel" /\ m.body.kind = "display"
    THEN {"id", "className", "outerHTML"}
    ELSE {}

(***************************************************************************)
(* The state machine.                                                      *)
(***************************************************************************)
Cur ==
    [logs |-> logs, forwarded |-> forwarded, now |-> now, marks |-> marks,
     measures |-> measures, evals |-> evals, active |-> active, tab |-> tab,
     selected |-> selected, off |-> off, dataMode |-> dataMode,
     winSide |-> winSide, rootSide |-> rootSide, left |-> left, top |-> top,
     markup |-> markup, els |-> els]

\* The clock is monotonic: what a handler started now reads from it is a
\* time t not before the latest reading.
Times == now..MaxClock
At(S, t) == [S EXCEPT !.now = t]

\* The handler's result becomes the next state.  The page and the user stop
\* starting handlers that log once the log holds maxLogs entries, and
\* handlers that place a mark once MaxMarks marks are placed.  A handler
\* that stores no reading of the clock has not read it.
Becomes(T, maxLogs) ==
    /\ T.logs = logs \/ Len(logs) < maxLogs
    /\ Len(T.marks) <= MaxMarks
    /\ logs' = T.logs /\ forwarded' = T.forwarded
    /\ now' = IF T.logs = logs /\ T.marks = marks THEN now ELSE T.now
    /\ marks' = T.marks /\ measures' = T.measures /\ evals' = T.evals
    /\ active' = T.active /\ tab' = T.tab /\ selected' = T.selected
    /\ off' = T.off /\ dataMode' = T.dataMode /\ winSide' = T.winSide
    /\ rootSide' = T.rootSide /\ left' = T.left /\ top' = T.top
    /\ markup' = T.markup /\ els' = T.els

\* State after the module is loaded and new Inspector() has returned.
Init ==
    /\ logs = <<>> /\ forwarded = <<>> /\ now = 0
    /\ marks = <<>> /\ measures = <<>> /\ evals = 0
    /\ active = FALSE /\ tab = "display" /\ selected = NoElement
    /\ off = TRUE /\ dataMode = FALSE
    /\ winSide = TRUE /\ rootSide = TRUE
    /\ left = <<>> /\ top = <<>>
    /\ markup = EmptyMarkup
    /\ els = [e \in PageElements |-> InitialElement(e)]

\* The page calls console.log.
Console ==
    \E c \in PageChannels, data \in ChannelInputs, t \in Times :
        Becomes(ConsoleCall(At(Cur, t), c, data), MaxLogs)

\* The host dispatches "unhandledrejection".
Rejection ==
    \E reason \in PageErrors, t \in Times :
        Becomes(RejectionListener(At(Cur, t), reason), MaxLogs)

\* The host dispatches "error".
Error ==
    \E error \in PageErrors, t \in Times :
        Becomes(ErrorListener(At(Cur, t), error), MaxLogs)

\* The page calls toggle().
Toggle == Becomes(toggle(Cur), MaxLogs)

\* The user presses a key.
KeyDown == \E key \in Keys : Becomes(keydown(Cur, key), MaxLogs)

\* The user right-clicks an element of the page or the panel.
ContextMenu ==
    \E target \in Targets, position \in MousePositions :
        /\ target \in PageElements => els[target].attached
        /\ Becomes(contextmenu(Cur, target, position), MaxLogs)

\* The page calls inspectElement(element, position).
InspectElement ==
    \E e \in PageElements, position \in MousePositions :
        Becomes(inspectElement(Cur, e, position), MaxLogs)

ValuesFor(dataName) ==
    IF dataName = "outerHTML" THEN MarkupValues
    ELSE IF dataName = "className" THEN ClassNames
    ELSE IdValues

\* The user changes a field of the display tab.
Ch ==
    /\ ~off
    /\ \E dataName \in ChFields(markup) :
           \E value \in ValuesFor(dataName) :
               Becomes(ch(Cur, dataName, value, NoPosition), MaxLogs)

\* The user clicks a button of the panel.
SpClick ==
    /\ ~off
    /\ \E dataName \in Buttons(markup), position \in MousePositions, t \in Times :
           Becomes(sp(At(Cur, t), dataName, "", position), MaxLogs)

\* The user changes the side-mode checkbox or the Run JavaScript field.
SpChange ==
    /\ ~off
    /\ \E dataName \in SpFields(markup), t \in Times :
           \E value \in (IF dataName = "runjs" THEN Scripts ELSE {""}) :
               Becomes(sp(At(Cur, t), dataName, value, NoPosition), MaxLogs)

Next ==
    \/ Console
    \/ Rejection
    \/ Error
    \/ Toggle
    \/ KeyDown
    \/ ContextMenu
    \/ InspectElement
    \/ Ch
    \/ SpClick
    \/ SpChange

Spec == Init /\ [][Next]_vars

(***************************************************************************)
(* The log interceptor on its own: the page logs through the channels and  *)
(* the host reports errors and rejections, with two distinct payloads and  *)
(* a longer log.                                                           *)
(***************************************************************************)
LogPayloads == {Str(<<"p">>), Str(<<"q">>)}
\* event.reason of a rejection: what the promise was rejected with.
Reasons == {ErrorObject("TypeError"), Undefined}

ConsoleLog ==
    \E c \in Channels, data \in LogPayloads \cup {Undefined}, t \in Times :
        Becomes(ConsoleCall(At(Cur, t), c, data), MaxLogCalls)

RejectionLog ==
    \E reason \in Reasons, t \in Times :
        Becomes(RejectionListener(At(Cur, t), reason), MaxLogCalls)

ErrorLog ==
    \E error \in EventPayloads, t \in Times :
        Becomes(ErrorListener(At(Cur, t), error), MaxLogCalls)

NextLog ==
    \/ ConsoleLog
    \/ RejectionLog
    \/ ErrorLog

SpecLog == Init /\ [][NextLog]_vars

(***************************************************************************)
(* The claims.                                                             *)
(***************************************************************************)
ClickPosition == [x |-> "1", y |-> "2"]

\* The payloads of the log entries made through the channels, in log order.
ChannelEntries(lg) ==
    LET made == SelectSeq(lg, LAMBDA entry : entry.data.type = "string")
    IN  [i \in 1..Len(made) |-> made[i].data]

\* C1: a call to a wrapped channel with a defined payload appends exactly one
\* entry, holding that payload, after the entries already there; the
\* entries made through the channels are in the order of the calls, and the
\* timestamps never decrease along the log.
C1_DefinedCallAppendsInOrder ==
    /\ \A c \in Channels, d \in LogPayloads, t \in Times :
           LET T == ConsoleCall(At(Cur, t), c, d)
           IN  /\ Len(T.logs) = Len(logs) + 1
               /\ SubSeq(T.logs, 1, Len(logs)) = logs
               /\ T.logs[Len(T.logs)].data = d
               /\ \A i \in 1..Len(logs) : logs[i].ts <= T.logs[Len(T.logs)].ts
    /\ \A i, j \in 1..Len(logs) : i <= j => logs[i].ts <= logs[j].ts
    /\ ChannelEntries(logs) = [i \in 1..Len(forwarded) |-> forwarded[i].data]

\* Two calls with different payloads at different times have been logged.
C1_Witness ==
    /\ Len(logs) = 2 /\ Len(forwarded) = 2
    /\ logs[1].data = Str(<<"p">>) /\ logs[2].data = Str(<<"q">>)
    /\ logs[1].ts < logs[2].ts

C3_ToggleTwiceRestores ==
    LET T == toggle(toggle(Cur))
    IN  /\ T.active = active
        /\ T.off = off
        /\ T.dataMode = dataMode
        /\ T.winSide = winSide
        /\ T.rootSide = rootSide

\* An active session docked to the side by the user, where one toggle
\* changes all five and the second one brings them back.
C3_Witness ==
    /\ active /\ winSide /\ selected # NoElement
    /\ toggle(Cur).active # active /\ toggle(Cur).off # off
    /\ toggle(Cur).dataMode # dataMode /\ toggle(Cur).winSide # winSide
    /\ toggle(toggle(Cur)) = Cur

\* C4: while active is false, inspectElement(element, position) changes
\* neither the selection nor the panel's markup nor its position.
C4_InactiveInspectIsNoOp ==
    ~active =>
        \A e \in PageElements, position \in MousePositions \cup {NoPosition} :
            LET T == inspectElement(Cur, e, position)
            IN  /\ T.selected = selected
                /\ T.markup = markup
                /\ T.left = left
                /\ T.top = top

\* An inactive session that holds a selection and a rendered panel showing
\* another tab than the current render would.
C4_Witness ==
    /\ ~active /\ selected # NoElement /\ markup.kind = "panel"
    /\ inspectElement(Cur, selected, ClickPosition) = Cur

\* C5 as stated: with an element selected, ch(event, 'id') with value v sets
\* the element's id to v and the render that follows shows v in the header
\* and as the ID of the display tab; likewise for className.
C5_EditedValueIsShown ==
    selected # NoElement =>
        \A v \in InputValues :
            LET T == ch(Cur, "id", v, NoPosition)
                U == ch(Cur, "className", v, NoPosition)
            IN  /\ T.els[selected].id = v
                /\ U.els[selected].className = v
                /\ active =>
                       /\ T.markup.header.id = v
                       /\ U.markup.header.className = v
                       /\ tab = "display" =>
                              /\ T.markup.body.id = v
                              /\ U.markup.body.className = v

\* C6: with a selection present and a start mark placed, a 'stamp' appends
\* exactly one entry, the measurement, whose duration is >= 0, and leaves no
\* mark and no measure; a 'mark' places the start mark.
C6_MarkThenStampMeasuresOnce ==
    selected # NoElement =>
        /\ HasMark(sp(Cur, "mark", "", ClickPosition).marks, "ins-mark")
        /\ HasMark(marks, "ins-mark") =>
               \A t \in Times :
                   LET T == sp(At(Cur, t), "stamp", "", ClickPosition)
                       n == Len(T.logs)
                   IN  /\ n = Len(logs) + 1
                       /\ SubSeq(T.logs, 1, Len(logs)) = logs
                       /\ T.logs[n].data.type = "stampResult"
                       /\ T.logs[n].data.duration >= 0
                       /\ T.marks = <<>>
                       /\ T.measures = <<>>

\* A measurement of a positive duration has been logged and no mark remains.
C6_Witness ==
    /\ marks = <<>> /\ measures = <<>> /\ selected # NoElement
    /\ \E i \in 1..Len(logs) :
           /\ logs[i].data.type = "stampResult"
           /\ logs[i].data.duration > 0

\* The state after the clicks on Console, Storage, Performance and Display.
TabCycle(S) ==
    sp(sp(sp(sp(S, "console", "", ClickPosition),
             "storage", "", ClickPosition),
          "performance", "", ClickPosition),
       "display", "", ClickPosition)

\* C7: from a display-tab render of the selected element, switching through
\* console, storage, performance and back to display renders the markup
\* the panel had at the start.
C7_TabCycleRestoresDisplay ==
    (/\ active /\ selected # NoElement /\ tab = "display"
     /\ markup.kind = "panel" /\ markup.body.kind = "display")
        => TabCycle(Cur).markup = markup

\* A display-tab render after the user has been to the performance tab and,
\* through a stamp, to the console tab.
C7_Witness ==
    /\ active /\ selected # NoElement /\ tab = "display"
    /\ markup.kind = "panel" /\ markup.body.kind = "display"
    /\ \E i \in 1..Len(logs) : logs[i].data.type = "stampResult"
    /\ sp(Cur, "console", "", ClickPosition).markup # markup

\* C8: the panel is shown (no "off" class) if and only if active is true.
C8_ShownIffActive == (~off) <=> active

\* The panel shown, with an element inspected.
C8_Witness == active /\ ~off /\ selected # NoElement

\* C9: selected is defined only after an inspectElement call has completed
\* while active (which leaves the panel rendered and positioned); no other
\* operation sets it, and an inspect action while inactive does not.
C9_SelectedOnlyByActiveInspect ==
    /\ selected # NoElement => markup.kind = "panel" /\ left # <<>> /\ top # <<>>
    /\ toggle(Cur).selected = selected
    /\ \A key \in Keys : keydown(Cur, key).selected = selected
    /\ \A c \in Channels, d \in ChannelInputs :
           ConsoleCall(Cur, c, d).selected = selected
    /\ \A d \in EventPayloads :
           /\ ErrorListener(Cur, d).selected = selected
           /\ RejectionListener(Cur, d).selected = selected
    /\ \A n \in {"id", "className", "outerHTML"} :
           \A v \in ValuesFor(n) : ch(Cur, n, v, NoPosition).selected = selected
    /\ \A n \in {"sideMode", "display", "console", "storage", "performance",
                 "runjs", "mark", "stamp", "reload"} :
           \A v \in (IF n = "runjs" THEN Scripts ELSE {""}) :
               sp(Cur, n, v, ClickPosition).selected = selected
    /\ ~active =>
           \A t \in Targets :
               contextmenu(Cur, t, ClickPosition).selected = selected
    /\ ~active =>
           \A e \in PageElements :
               inspectElement(Cur, e, ClickPosition).selected = selected

\* A session deactivated before any inspection, which holds no selection.
C9_Witness ==
    /\ ~active /\ selected = NoElement
    /\ \E i \in 1..Len(logs) : logs[i].data.type = "error"

\* C10 as stated: every call to a wrapper is forwarded to the original
\* channel, the call with an undefined payload too, and an entry is appended
\* unless the payload is undefined.
C10_EveryCallForwarded ==
    \A c \in Channels, d \in LogPayloads \cup {Undefined}, t \in Times :
        LET T == ConsoleCall(At(Cur, t), c, d)
        IN  /\ T.forwarded = Append(forwarded, [ch |-> c, data |-> d])
            /\ d # Undefined => T.logs = Append(logs, [ts |-> t, data |-> d])
            /\ d = Undefined => T.logs = logs

\* C10, amended: a wrapper forwards the call to its own original channel
\* and appends an entry exactly when the payload is defined; a call with an
\* undefined payload is neither forwarded nor logged.
C10_ForwardedIffDefined ==
    \A c \in Channels, d \in LogPayloads \cup {Undefined}, t \in Times :
        LET T == ConsoleCall(At(Cur, t), c, d)
        IN  IF d = Undefined
            THEN T.forwarded = forwarded /\ T.logs = logs
            ELSE /\ T.forwarded = Append(forwarded, [ch |-> c, data |-> d])
                 /\ T.logs = Append(logs, [ts |-> t, data |-> d])

\* Calls have been forwarded to two different original channels.
C10_Witness ==
    /\ Len(forwarded) = 2
    /\ forwarded[1].ch = "error" /\ forwarded[2].ch = "warn"
    /\ ConsoleCall(Cur, "log", Undefined).forwarded = forwarded

\* C11: an "unhandledrejection" event appends exactly one entry, holding
\* event.reason, and an "error" event appends exactly one entry, holding
\* event.error; the entry comes after the entries of the events dispatched
\* before it, which stay as they were.
C11_EventAppendsOneEntry ==
    \A t \in Times :
        /\ \A reason \in Reasons :
               RejectionListener(At(Cur, t), reason).logs
                   = Append(logs, [ts |-> t, data |-> reason])
        /\ \A error \in EventPayloads :
               ErrorListener(At(Cur, t), error).logs
                   = Append(logs, [ts |-> t, data |-> error])

\* A rejection and then an error have been dispatched and logged in that
\* order, and an event that carries no error object is still logged.
C11_Witness ==
    /\ Len(logs) = 2
    /\ logs[1].data = ErrorObject("TypeError")
    /\ logs[2].data = ErrorObject("Error")
    /\ Len(ErrorListener(Cur, Undefined).logs) = 3

\* C12 as stated: no entry of the log has an undefined payload.
C12_NoUndefinedPayload ==
    \A i \in 1..Len(logs) : logs[i].data # Undefined

\* What a caller of ch and sp can pass: the names, the values and the
\* positions the events carry.
ChNames == {"id", "className", "outerHTML"}
SpTags == {"sideMode", "display", "console", "storage", "performance",
           "runjs", "mark", "stamp", "reload"}
Positions == MousePositions \cup {NoPosition}
AnyValue(dataName) ==
    IF dataName = "outerHTML" THEN MarkupValues ELSE InputValues

\* The states one logging call or one event of the host can leave.
AfterLogging ==
    {ConsoleCall(At(Cur, t), c, d) :
        t \in Times, c \in Channels, d \in ChannelInputs}
    \cup {RejectionListener(At(Cur, t), d) : t \in Times, d \in EventPayloads}
    \cup {ErrorListener(At(Cur, t), d) : t \in Times, d \in EventPayloads}

\* The states one call of toggle or inspectElement, one key or one
\* right-click can leave.
AfterSession ==
    {toggle(Cur)}
    \cup {keydown(Cur, key) : key \in Keys}
    \cup {contextmenu(Cur, target, position) :
              target \in Targets, position \in MousePositions}
    \cup {inspectElement(Cur, e, position) :
              e \in PageElements, position \in Positions}

\* The states one call of ch, made on a change event, can leave.
AfterCh ==
    UNION {{ch(Cur, n, v, NoPosition) : v \in AnyValue(n)} : n \in ChNames}

\* What the event of an sp call carries: the fields send a change event
\* with the value typed, the buttons a click.
SpValues(n) == IF n = "runjs" THEN Scripts ELSE {""}
SpPosition(n) == IF n \in {"sideMode", "runjs"} THEN NoPosition ELSE ClickPosition

\* The states one call of sp can leave.
AfterSp ==
    UNION {{sp(Cur, n, v, SpPosition(n)) : v \in SpValues(n)} : n \in SpTags}

\* C13: whatever operation runs (a logging call, an error or rejection
\* event, toggle, inspectElement, a key, a right-click, ch, sp with any tag),
\* the log before it is a prefix of the log after it.
C13_LogIsAppendOnly ==
    \A T \in AfterLogging \cup AfterSession \cup AfterCh \cup AfterSp :
        /\ Len(T.logs) >= Len(logs)
        /\ SubSeq(T.logs, 1, Len(logs)) = logs

\* A log that holds an entry, in a session where a script run from the
\* console tab appends two more behind it.
C13_Witness ==
    /\ Len(logs) >= 1 /\ active /\ selected # NoElement
    /\ \E T \in AfterSp :
           /\ Len(T.logs) = Len(logs) + 2
           /\ SubSeq(T.logs, 1, Len(logs)) = logs

\* C14 as stated: while active is false and an element is selected, a call
\* of ch or sp leaves the selected element's properties, the tab, the
\* side-mode markers, the log, the performance marks and the panel's markup
\* as they were.
C14_InactiveChSpAreNoOps ==
    (~active /\ selected # NoElement) =>
        \A T \in AfterCh \cup AfterSp :
            /\ T.els = els
            /\ T.tab = tab
            /\ T.winSide = winSide /\ T.rootSide = rootSide
            /\ T.logs = logs
            /\ T.marks = marks
            /\ T.markup = markup

\* C15: while no element is selected, a call of ch or of sp with any tag
\* leaves the tab, the side-mode markers, the log, the performance marks,
\* the panel's markup and the page's elements as they were, forwards
\* nothing to the console and evaluates no script.
C15_NoSelectionChSpAreNoOps ==
    selected = NoElement =>
        \A T \in AfterCh \cup AfterSp :
            /\ T.tab = tab
            /\ T.winSide = winSide /\ T.rootSide = rootSide
            /\ T.logs = logs
            /\ T.marks = marks /\ T.measures = measures
            /\ T.markup = markup
            /\ T.els = els
            /\ T.forwarded = forwarded
            /\ T.evals = evals
            /\ T.selected = selected /\ T.active = active

\* An active session that has logged but has not inspected an element yet.
C15_Witness ==
    /\ active /\ selected = NoElement /\ Len(logs) >= 1
    /\ sp(Cur, "console", "", ClickPosition) = Cur
    /\ sp(Cur, "runjs", "ok", NoPosition) = Cur
    /\ ch(Cur, "id", <<"b", "a", "r">>, NoPosition) = Cur

\* Tags that are no case of the switch of sp: the tag of the Refresh button
\* and one no control of the panel sends.
UnknownTags == {"reload", "bogus"}

\* C16: sp with a tag that is no case of its switch leaves active, the tab,
\* the selection, the side-mode markers, the log and the performance marks
\* as they were; what it does, in an active session with a selection, is
\* render the panel again.
C16_UnknownTagChangesNoState ==
    \A n \in UnknownTags, position \in Positions :
        LET T == sp(Cur, n, "", position)
        IN  /\ T.active = active
            /\ T.tab = tab
            /\ T.selected = selected
            /\ T.winSide = winSide /\ T.rootSide = rootSide
            /\ T.logs = logs
            /\ T.marks = marks
            /\ (active /\ selected # NoElement) =>
                   T.markup = Render(tab, selected, els[selected], logs,
                                     winSide, marks)

\* An active session on the console tab whose panel was rendered before the
\* last entry was logged: Refresh renders it again and changes nothing else.
C16_Witness ==
    /\ active /\ selected # NoElement /\ tab = "console" /\ Len(logs) >= 1
    /\ sp(Cur, "reload", "", ClickPosition).markup # markup
    /\ [sp(Cur, "reload", "", ClickPosition) EXCEPT !.markup = markup] = Cur

\* C17 as stated: in an active session with an element selected,
\* ch(event, 'outerHTML') with value v makes v the raw markup of the selected
\* element, and the render that follows shows v in the raw-markup field of
\* the display tab.
C17_OuterHTMLEditIsShown ==
    (active /\ selected # NoElement) =>
        \A v \in MarkupValues :
            LET T == ch(Cur, "outerHTML", v, NoPosition)
            IN  /\ OuterHTML(T.selected, T.els[T.selected]) = v
                /\ tab = "display" =>
                       T.markup.body.outerHTML = TextareaParsed(OptionInnerHTML(v))

\* Performance marks of the host, with and without a start mark.
StartMark == <<[name |-> "ins-mark", startTime |-> 0]>>
EndMark == <<[name |-> "ins-end-mark", startTime |-> 0]>>
\* Other marks with the same answer to getEntriesByName("ins-mark").
SameMarkFlag(mk) == {mk, IF HasMark(mk, "ins-mark") THEN StartMark ELSE EndMark}
\* Marks with the other answer.
OtherMarkFlag(mk) == IF HasMark(mk, "ins-mark") THEN EndMark ELSE StartMark

\* C18 as stated: two states that agree on the tab, the element, the log
\* (and the storage) get the same markup from inspectElement, whatever
\* the panel's side-mode attribute and the performance marks are.
C18_MarkupOfFourInputs ==
    active =>
        \A e \in PageElements, side \in BOOLEAN, mk \in {<<>>, StartMark} :
            inspectElement([Cur EXCEPT !.winSide = side, !.marks = mk],
                           e, ClickPosition).markup
                = inspectElement(Cur, e, ClickPosition).markup

\* States that agree with S on the tab, the elements, the log, the panel's
\* side-mode attribute and on whether a start mark is placed, and differ in
\* the rest: the root's attribute, the marks themselves, and (blank) what
\* the session has selected, rendered, positioned, evaluated and forwarded.
SameInputs(S) ==
    {[S EXCEPT !.rootSide = rs, !.marks = mk,
               !.selected = IF blank THEN NoElement ELSE @,
               !.markup = IF blank THEN EmptyMarkup ELSE @,
               !.left = IF blank THEN <<>> ELSE @,
               !.top = IF blank THEN <<>> ELSE @,
               !.evals = IF blank THEN 0 ELSE @,
               !.forwarded = IF blank THEN <<>> ELSE @,
               !.measures = IF blank THEN <<>> ELSE @] :
        rs \in BOOLEAN, mk \in SameMarkFlag(S.marks), blank \in BOOLEAN}

\* C18, amended: the markup inspectElement renders is a function of the tab,
\* the element, the log (and the storage), the panel's side-mode attribute
\* and whether a start mark is placed: states that agree on these get the
\* same markup, whatever the position, a state with the other side-mode attribute
\* gets another markup, and so does, on the performance tab, a state with
\* the other answer about the start mark.
C18_MarkupOfSixInputs ==
    active =>
        \A e \in PageElements :
            LET m == inspectElement(Cur, e, ClickPosition).markup
            IN  /\ \A U \in SameInputs(Cur) :
                       inspectElement(U, e, ClickPosition).markup = m
                /\ inspectElement(Cur, e, NoPosition).markup = m
                /\ inspectElement([Cur EXCEPT !.winSide = ~winSide],
                                  e, ClickPosition).markup # m
                /\ (inspectElement([Cur EXCEPT !.marks = OtherMarkFlag(marks)],
                                   e, ClickPosition).markup # m)
                       <=> tab = "performance"

\* The performance tab rendered with a start mark placed and the panel
\* taken out of side mode.
C18_Witness ==
    /\ active /\ selected # NoElement /\ tab = "performance"
    /\ ~winSide /\ HasMark(marks, "ins-mark")
    /\ markup = inspectElement(Cur, selected, ClickPosition).markup
    /\ markup.body.markActive /\ ~markup.sideChecked

\* C19: the tab is always one of display, console, storage, performance,
\* and with an element selected sp with one of these four tags sets the tab
\* to that tag.
C19_TabTagSetsTab ==
    /\ tab \in Tabs
    /\ selected # NoElement =>
           \A n \in Tabs : sp(Cur, n, "", ClickPosition).tab = n

\* The storage tab chosen and shown, from which a click opens another tab.
C19_Witness ==
    /\ active /\ selected # NoElement /\ tab = "storage"
    /\ markup.kind = "panel" /\ markup.activeTab = "storage"
    /\ sp(Cur, "performance", "", ClickPosition).tab = "performance"

\* C20: the tab is left as it was by toggle, by inspectElement, by ch, by
\* the key and right-click listeners, by the logging calls and by the
\* error and rejection events; so deactivating and reactivating, through
\* toggle or the Escape key, comes back to the tab last chosen.
C20_TabChangesOnlyInSp ==
    /\ \A T \in AfterLogging \cup AfterSession \cup AfterCh : T.tab = tab
    /\ toggle(toggle(Cur)).tab = tab
    /\ toggle(keydown(Cur, "Escape")).tab = tab

\* A session deactivated on the console tab with an element selected, which
\* a toggle reactivates on that tab.
C20_Witness ==
    /\ ~active /\ selected # NoElement /\ tab = "console"
    /\ toggle(Cur).active /\ toggle(Cur).tab = "console"

\* C21: with an element selected, a script run through sp 'runjs' that
\* throws leaves active, the tab and the selection as they were, and the
\* log holds, behind the echo of the script, the entry the "error" listener
\* makes of what was thrown.
C21_FailedScriptIsLogged ==
    selected # NoElement =>
        \A t \in Times :
            LET T == sp(At(Cur, t), "runjs", "throw", NoPosition)
            IN  /\ T.active = active
                /\ T.tab = tab
                /\ T.selected = selected
                /\ T.logs = logs \o <<[ts |-> t, data |-> EchoText("throw")],
                                      [ts |-> t, data |-> ErrorObject("Error")]>>

\* A session on the console tab where a script has thrown: the log holds
\* its echo and the error behind it.
C21_Witness ==
    /\ active /\ selected # NoElement /\ tab = "console" /\ evals >= 1
    /\ Len(logs) >= 2
    /\ logs[Len(logs) - 1].data = EchoText("throw")
    /\ logs[Len(logs)].data = ErrorObject("Error")

\* C22: the document root carries data-mode="inspect" exactly when active
\* is true, and a toggle flips the side-mode attribute of the panel and the
\* inspector-side-mode attribute of the root.
C22_ModeMarkerIffActive ==
    /\ dataMode <=> active
    /\ toggle(Cur).winSide = ~winSide
    /\ toggle(Cur).rootSide = ~rootSide
    /\ toggle(Cur).dataMode <=> toggle(Cur).active

\* An active session, marked on the root, that was taken into side mode and
\* that a toggle takes out of it.
C22_Witness ==
    /\ active /\ dataMode /\ winSide /\ rootSide
    /\ ~toggle(Cur).dataMode /\ ~toggle(Cur).winSide /\ ~toggle(Cur).rootSide

\* C23: a keydown is one toggle when active is true and the key is Escape,
\* and the session is inactive after it; while inactive, or with another
\* key, it changes nothing.
C23_EscapeOnlyDeactivates ==
    \A key \in Keys :
        LET T == keydown(Cur, key)
        IN  /\ (active /\ key = "Escape") => (T = toggle(Cur) /\ ~T.active)
            /\ (~active \/ key # "Escape") => T = Cur

\* An inactive session with an element selected, which Escape leaves
\* inactive, and which was left by Escape or toggle.
C23_Witness ==
    /\ ~active /\ selected # NoElement
    /\ keydown(Cur, "Escape") = Cur
    /\ keydown(toggle(Cur), "Escape") = Cur

\* Values of this.tab that are none of the four tabs.
UnknownTabs == {"network"}

\* C24 as stated: a render with a tab that is none of the four leaves the
\* tab area of the panel empty: no sub-view and no text.
C24_UnknownTabRendersNothing ==
    \A t \in UnknownTabs, e \in PageElements :
        LET T == inspectElement([Cur EXCEPT !.tab = t, !.active = TRUE],
                                e, ClickPosition)
        IN  /\ T.markup.body.kind \notin Tabs
            /\ T.markup.body.kind = "text" => T.markup.body.text = <<>>

\* The page's script marks element e with the class inspect.core.
MarkedCore(S, e) == SetProperty(S, e, "className", CoreClass)

\* C25: a right-click selects its target when active is true and the target
\* is neither the panel's host nor marked inspect.core, and changes nothing
\* otherwise (while inactive, on the host, which stands for the panel and
\* what is rendered in it, or on a marked element); the selection is never
\* the panel's host.
C25_ContextMenuGuards ==
    /\ selected # Host
    /\ \A target \in Targets, position \in MousePositions :
           LET T == contextmenu(Cur, target, position)
           IN  /\ T.selected # Host
               /\ IF target = Host \/ ~active THEN T = Cur
                  ELSE IF els[target].className = CoreClass THEN T = Cur
                  ELSE T = inspectElement(Cur, target, position)
                       /\ T.selected = target
    /\ \A e \in PageElements, position \in MousePositions :
           contextmenu(MarkedCore(Cur, e), e, position) = MarkedCore(Cur, e)

\* An active session with an element selected, where a right-click on the
\* panel changes nothing, a right-click on the element while it is marked
\* inspect.core changes nothing, and a right-click on it unmarked renders.
C25_Witness ==
    /\ active /\ selected \in PageElements /\ tab = "console"
    /\ contextmenu(Cur, Host, ClickPosition) = Cur
    /\ contextmenu(MarkedCore(Cur, selected), selected, ClickPosition)
           = MarkedCore(Cur, selected)
    /\ contextmenu(Cur, selected, ClickPosition).markup # markup

\* C26: with an element selected and no start mark placed, a 'stamp' appends
\* no measurement to the log (what it appends is the error the measure
\* raised), leaves the tab as it was and does not render the panel again.
C26_StampWithoutMark ==
    (selected # NoElement /\ ~HasMark(marks, "ins-mark")) =>
        \A t \in Times :
            LET T == sp(At(Cur, t), "stamp", "", ClickPosition)
            IN  /\ \A i \in 1..Len(T.logs) :
                       i > Len(logs) => T.logs[i].data.type # "stampResult"
                /\ T.logs = Append(logs, [ts |-> t,
                                          data |-> ErrorObject("SyntaxError")])
                /\ T.tab = tab
                /\ T.markup = markup
                /\ T.left = left /\ T.top = top

\* The performance tab after a stamp without a start mark: the end mark is
\* left placed, the error is logged, and the panel still shows that tab.
C26_Witness ==
    /\ active /\ selected # NoElement /\ tab = "performance"
    /\ markup.kind = "panel" /\ markup.body.kind = "performance"
    /\ ~HasMark(marks, "ins-mark") /\ HasMark(marks, "ins-end-mark")
    /\ Len(logs) >= 1 /\ logs[Len(logs)].data = ErrorObject("SyntaxError")
====
